---- MODULE Spec2Model ----
(***************************************************************************)
(* A model of src/photo.py: the construction of one LycheePhoto (the       *)
(* build), and the operations a caller runs on the built record            *)
(* (cleanup, adjustRotation/rotatephoto), over a small file system.        *)
(*                                                                         *)
(* The code is Python 2 (hashlib.update on a str, integer '/'), so         *)
(* str(float) is the 12-significant-digit '%.12g' form and '/' on ints is  *)
(* floor division.                                                         *)
(***************************************************************************)
EXTENDS Integers, Sequences, FiniteSets, TLC

VARIABLES
    source,     \* the source image file as the decoder sees it (an input)
    conf,       \* the configuration read through conf.* (an input)
    now,        \* what time.time() returns at line 84 (an input)
    pc,         \* position of __init__, then "done" or "failed"
    self,       \* the attributes of the LycheePhoto instance
    attrs,      \* names of the attributes that have been assigned
    fs,         \* the file system: path -> content
    ntmp,       \* number of temporary files tempfile has created
    raised,     \* the exception that escaped the last operation, or "none"
    calls,      \* the methods __init__ has called, in order
    rotlog,     \* the degrees of every rotatephoto call, in order
    adjusted,   \* number of adjustRotation calls made by the caller
    cleaned,    \* number of cleanup calls made by the caller
    denied      \* the paths os.remove refused during the last cleanup

vars == <<source, conf, now, pc, self, attrs, fs, ntmp, raised, calls, rotlog,
          adjusted, cleaned, denied>>

----------------------------------------------------------------------------
(* Bounds of the model *)

\* the caller calls cleanup() at most this many times
MaxCleanup == 2
\* the caller calls adjustRotation() at most this many times
MaxAdjust == 2
\* the Orientation tag takes the values 0..MaxOrientation
MaxOrientation == 8
\* image sides are drawn from 1..Margin and within Margin of each threshold
Margin == 2

(* Program constants *)

\* SMALL_THUMB_SIZE = (200, 200)
SMALL_THUMB_SIZE == 200
\* BIG_THUMB_SIZE = (400, 400)
BIG_THUMB_SIZE == 400
\* self.id.ljust(14, '0')
IdWidth == 14
\* conf.medium_size as the caller's configuration sets it
MediumSize == 1920
\* conf.big_size when the configuration has it
BigSize == 2048

----------------------------------------------------------------------------
(* Arithmetic helpers *)

Min(a, b) == IF a < b THEN a ELSE b

Max(a, b) == IF a > b THEN a ELSE b

----------------------------------------------------------------------------
(* Files *)

SrcPath == "src"

DestPath == "dest"

TmpNames == <<"tmp1", "tmp2", "tmp3", "tmp4">>

Paths == {SrcPath, DestPath} \cup {TmpNames[i] : i \in 1..Len(TmpNames)}

NoBox == <<0, 0, 0, 0>>

\* no file at the path
Absent == [tag |-> "absent", w |-> 0, h |-> 0, rot |-> 0, box |-> NoBox]

\* the zero-byte file NamedTemporaryFile creates
EmptyFile == [tag |-> "empty", w |-> 0, h |-> 0, rot |-> 0, box |-> NoBox]

\* a file no decoder accepts
Garbage == [tag |-> "garbage", w |-> 0, h |-> 0, rot |-> 0, box |-> NoBox]

\* an image: what it was derived as, its size, its rotation relative to the
\* source and the box of the source it shows
Img(tag, w, h, rot, box) == [tag |-> tag, w |-> w, h |-> h, rot |-> rot, box |-> box]

Exists(f, p) == f[p].tag # "absent"

\* Image.open(p) succeeds
Opens(f, p) == f[p].tag \notin {"absent", "empty", "garbage"}

\* tempfile.NamedTemporaryFile(delete=False): a new, empty file
NamedTemporaryFile(f, n) == [path |-> TmpNames[n + 1],
                             fs |-> [f EXCEPT ![TmpNames[n + 1]] = EmptyFile],
                             ntmp |-> n + 1]

----------------------------------------------------------------------------
(* The photo id, lines 84-86 *)

RECURSIVE NatDigits(_)
\* the decimal digits of n >= 0, most significant first
NatDigits(n) == IF n < 10 THEN <<n>> ELSE Append(NatDigits(n \div 10), n % 10)

RECURSIVE PadLeft(_, _)
\* zero-pad a digit sequence on the left to width k
PadLeft(s, k) == IF Len(s) >= k THEN s ELSE PadLeft(<<0>> \o s, k)

RECURSIVE StripZeros(_)
\* drop the trailing zeros of a fraction
StripZeros(s) == IF s # <<>> /\ s[Len(s)] = 0 THEN StripZeros(SubSeq(s, 1, Len(s) - 1)) ELSE s

ToChars(s) == [i \in 1..Len(s) |-> <<"0", "1", "2", "3", "4", "5", "6", "7", "8", "9">>[s[i] + 1]]

\* StrFloat as repr(t) prints it: every digit of the reading
StrFloat_Repr(t) ==
    LET fp == StripZeros(PadLeft(NatDigits(t.micros), 6))
    IN  ToChars(NatDigits(t.secs)) \o <<".">> \o (IF fp = <<>> THEN <<"0">> ELSE ToChars(fp))

\* str(t) of a Python 2 float t = secs + micros/10^6 >= 1: '%.12g', and ".0"
\* when no fraction is left.  A double holds such a t to better than the 12
\* digits printed, so the digits are those of the decimal value, except on
\* a tie, which falls to the side of the reading the double lies on (t.above).
StrFloat(t) ==
    LET nd    == Len(NatDigits(t.secs))
        dec   == Min(12 - nd, 6)
        scale == 10 ^ (6 - dec)
        rest  == t.micros % scale
        up    == 2 * rest > scale \/ (2 * rest = scale /\ t.above)
        q     == (t.micros \div scale) + (IF up THEN 1 ELSE 0)
        carry == q = 10 ^ dec
        ip    == IF carry THEN t.secs + 1 ELSE t.secs
        fp    == IF carry \/ dec = 0 THEN <<>> ELSE StripZeros(PadLeft(NatDigits(q), dec))
    IN  ToChars(NatDigits(ip)) \o <<".">> \o (IF fp = <<>> THEN <<"0">> ELSE ToChars(fp))

\* s.replace('.', '')
RemoveDots(s) == SelectSeq(s, LAMBDA c : c # ".")

RECURSIVE Ljust(_, _)
\* s.ljust(k, '0'): pads on the right, never truncates
Ljust(s, k) == IF Len(s) >= k THEN s ELSE Ljust(Append(s, "0"), k)

\* lines 84-86
ComputeId(t) == Ljust(RemoveDots(StrFloat(t)), IdWidth)

----------------------------------------------------------------------------
(* Image transforms *)

\* the whole source image as a file content
SourceImage(src) == Img("image", src.width, src.height, 0, <<0, 0, src.width, src.height>>)

\* CropBox with the surplus not halved: the square is not centred
CropBox_NotHalved(width, height) ==
    IF width > height
    THEN LET left == width - height
         IN  <<left, 0, height + left, height>>
    ELSE LET upper == height - width
         IN  <<0, upper, width, width + upper>>

\* the centred square generateThumbnail crops, lines 183-194:
\* (left, upper, right, lower); delta / 2 is integer division on ints
CropBox(width, height) ==
    IF width > height
    THEN LET delta == width - height
             left  == delta \div 2
         IN  <<left, 0, height + left, height>>
    ELSE LET delta == height - width
             upper == delta \div 2
         IN  <<0, upper, width, width + upper>>

\* PIL's Image.thumbnail(size): shrink to fit, keep the aspect, never enlarge
PilThumbnail(x, y, res) ==
    LET y1 == IF x > res THEN Max((y * res) \div x, 1) ELSE y
        x1 == IF x > res THEN res ELSE x
        x2 == IF y1 > res THEN Max((x1 * res) \div y1, 1) ELSE x1
        y2 == IF y1 > res THEN res ELSE y1
    IN  <<x2, y2>>

\* the image generateThumbnail saves, lines 200-203
ThumbnailImage(width, height, res) ==
    LET box  == CropBox(width, height)
        size == PilThumbnail(box[3] - box[1], box[4] - box[2], res)
    IN  Img("image", size[1], size[2], 0, box)

\* generateThumbnail(res), lines 175-204, on a record with width and height
generateThumbnail(slf, f, n, res) ==
    LET t == NamedTemporaryFile(f, n)
    IN  [path |-> t.path,
         fs   |-> [t.fs EXCEPT ![t.path] = ThumbnailImage(slf.width, slf.height, res)],
         ntmp |-> t.ntmp]

\* size < max_dimension, line 161
NeedsResize(img, size) == size < Max(img.w, img.h)

\* new_size, lines 162-163: int(ratio * side) with ratio = size / max_dimension,
\* the float product taken as exact
NewSize(img, size) ==
    LET max_dimension == Max(img.w, img.h)
    IN  <<(size * img.w) \div max_dimension, (size * img.h) \div max_dimension>>

\* resize(size), lines 155-172: the temporary file is created before the
\* size is looked at, and is left behind when no resize is needed
resize(f, n, size) ==
    LET t   == NamedTemporaryFile(f, n)
        img == f[SrcPath]
        new_size == NewSize(img, size)
    IN  IF NeedsResize(img, size)
        THEN [path |-> t.path,
              fs   |-> [t.fs EXCEPT ![t.path] = Img("image", new_size[1], new_size[2], 0, img.box)],
              ntmp |-> t.ntmp]
        ELSE [path |-> SrcPath, fs |-> t.fs, ntmp |-> t.ntmp]

\* img.rotate(rotation): same canvas, content turned
Rotate(img, rotation) == [img EXCEPT !.rot = (img.rot + rotation) % 360]

----------------------------------------------------------------------------
(* Inputs *)

Near(c) == (c - Margin)..(c + Margin)

\* sides for the lifecycle: below every threshold, exactly the medium
\* size, above every threshold
MainDims == {150, MediumSize, 2500}

\* sides for the thumbnail function: tiny, and around each thumbnail size
ThumbDims == (1..Margin) \cup Near(SMALL_THUMB_SIZE) \cup Near(BIG_THUMB_SIZE)

DateTimeTags == {"absent", "valid", "malformed"}

\* a file Image.open rejects
Undecodable == [decodable |-> FALSE, width |-> 0, height |-> 0, exif |-> FALSE,
                orientation |-> 0, datetime |-> "absent"]

\* decodable sources with sides in dims; orientation 0 also stands for a
\* tag dictionary without Orientation (ExifData.orientation defaults to 0)
Decodable(dims) ==
    {s \in [decodable : {TRUE}, width : dims, height : dims, exif : BOOLEAN,
            orientation : 0..MaxOrientation, datetime : DateTimeTags] :
        ~s.exif => (s.orientation = 0 /\ s.datetime = "absent")}

Confs == [medium_size : {MediumSize}, has_big : BOOLEAN, big_size : {BigSize}]

\* clock readings: seconds since the epoch, microseconds, and the side of
\* the reading its double lies on
Clock(secs, micros) == [secs : secs, micros : micros, above : BOOLEAN]

MainTimes == {t \in Clock({1414141414}, {123456}) : t.above}

IdTimes == Clock({1, 86400, 999999999, 1000000000, 1414141414, 2000000000},
                 {0, 1, 4999, 5000, 100000, 120000, 123456, 500000, 994999, 995000, 999999})

NoSelf == [id |-> <<>>, width |-> 0, height |-> 0, orientation |-> 0,
           datetime |-> "", description |-> "",
           thumbnailfullpath |-> "", thumbnailx2fullpath |-> "",
           medium_path |-> "", big_path |-> ""]

InitWith(sources, confs, times) ==
    /\ source \in sources
    /\ conf \in confs
    /\ now \in times
    /\ pc = "start"
    /\ self = NoSelf
    /\ attrs = {}
    /\ fs = [p \in Paths |-> IF p = SrcPath
                             THEN (IF source.decodable THEN SourceImage(source) ELSE Garbage)
                             ELSE Absent]
    /\ ntmp = 0
    /\ raised = "none"
    /\ calls = <<>>
    /\ rotlog = <<>>
    /\ adjusted = 0
    /\ cleaned = 0
    /\ denied = {}

Init == InitWith(Decodable(MainDims) \cup {Undecodable}, Confs, MainTimes)

----------------------------------------------------------------------------
(* The build: LycheePhoto.__init__, lines 69-152, step by step *)

\* an exception leaves __init__: no instance is returned
Fail(exc) ==
    /\ pc' = "failed"
    /\ raised' = exc

\* lines 72-105: names, id, urls, paths, size, datetime = now
Identify ==
    /\ pc = "start"
    /\ self' = [self EXCEPT !.id = ComputeId(now), !.description = "", !.datetime = "now"]
    /\ attrs' = attrs \cup {"originalname", "albumid", "description", "star", "id", "url",
                            "thumb2xUrl", "srcfullpath", "destfullpath", "type", "size",
                            "datetime", "exif"}
    /\ pc' = "metadata"
    /\ UNCHANGED <<source, conf, now, fs, ntmp, raised, calls, rotlog, adjusted, cleaned, denied>>

\* lines 107-140: only IOError is caught; strptime's ValueError is not
Metadata ==
    /\ pc = "metadata"
    /\ IF ~Opens(fs, SrcPath)
       THEN \* Image.open raises IOError: logged, and the build goes on
            /\ pc' = "thumb_small"
            /\ UNCHANGED <<self, attrs, raised>>
       ELSE IF source.exif /\ source.datetime = "malformed"
       THEN \* line 135 raises ValueError after width and height were set
            /\ self' = [self EXCEPT !.width = fs[SrcPath].w, !.height = fs[SrcPath].h]
            /\ attrs' = attrs \cup {"width", "height"}
            /\ Fail("ValueError")
       ELSE /\ self' = [self EXCEPT
                          !.width = fs[SrcPath].w,
                          !.height = fs[SrcPath].h,
                          !.orientation = IF source.exif THEN source.orientation ELSE 0,
                          !.datetime = IF source.exif /\ source.datetime = "valid"
                                       THEN "parsed" ELSE self.datetime,
                          !.description = IF ~source.exif THEN self.description
                                          ELSE IF source.datetime = "valid"
                                          THEN "parsed" ELSE self.datetime]
            /\ attrs' = attrs \cup {"width", "height"}
            /\ pc' = "thumb_small"
            /\ UNCHANGED raised
    /\ UNCHANGED <<source, conf, now, fs, ntmp, calls, rotlog, adjusted, cleaned, denied>>

\* line 142; self.width is read first (line 183): AttributeError when unset
ThumbSmall ==
    /\ pc = "thumb_small"
    /\ calls' = Append(calls, "generateThumbnail")
    /\ IF {"width", "height"} \subseteq attrs
       THEN LET r == generateThumbnail(self, fs, ntmp, SMALL_THUMB_SIZE)
            IN  /\ fs' = r.fs
                /\ ntmp' = r.ntmp
                /\ self' = [self EXCEPT !.thumbnailfullpath = r.path]
                /\ attrs' = attrs \cup {"thumbnailfullpath"}
                /\ pc' = "thumb_big"
                /\ UNCHANGED raised
       ELSE /\ Fail("AttributeError")
            /\ UNCHANGED <<self, attrs, fs, ntmp>>
    /\ UNCHANGED <<source, conf, now, rotlog, adjusted, cleaned, denied>>

\* line 143
ThumbBig ==
    /\ pc = "thumb_big"
    /\ calls' = Append(calls, "generateThumbnail")
    /\ LET r == generateThumbnail(self, fs, ntmp, BIG_THUMB_SIZE)
       IN  /\ fs' = r.fs
           /\ ntmp' = r.ntmp
           /\ self' = [self EXCEPT !.thumbnailx2fullpath = r.path]
    /\ attrs' = attrs \cup {"thumbnailx2fullpath"}
    /\ pc' = "medium"
    /\ UNCHANGED <<source, conf, now, raised, rotlog, adjusted, cleaned, denied>>

\* line 144
Medium ==
    /\ pc = "medium"
    /\ calls' = Append(calls, "resize")
    /\ LET r == resize(fs, ntmp, conf.medium_size)
       IN  /\ fs' = r.fs
           /\ ntmp' = r.ntmp
           /\ self' = [self EXCEPT !.medium_path = r.path]
    /\ attrs' = attrs \cup {"medium_path"}
    /\ pc' = "big"
    /\ UNCHANGED <<source, conf, now, raised, rotlog, adjusted, cleaned, denied>>

\* lines 146-149
Big ==
    /\ pc = "big"
    /\ IF conf.has_big
       THEN LET r == resize(fs, ntmp, conf.big_size)
            IN  /\ calls' = Append(calls, "resize")
                /\ fs' = r.fs
                /\ ntmp' = r.ntmp
                /\ self' = [self EXCEPT !.big_path = r.path]
       ELSE /\ self' = [self EXCEPT !.big_path = SrcPath]
            /\ UNCHANGED <<calls, fs, ntmp>>
    /\ attrs' = attrs \cup {"big_path"}
    /\ pc' = "hash"
    /\ UNCHANGED <<source, conf, now, raised, rotlog, adjusted, cleaned, denied>>

\* lines 151-152: the build ends here; adjustRotation is not called
Hash ==
    /\ pc = "hash"
    /\ calls' = Append(calls, "generateHash")
    /\ attrs' = attrs \cup {"checksum"}
    /\ pc' = "done"
    /\ UNCHANGED <<source, conf, now, self, fs, ntmp, raised, rotlog, adjusted, cleaned, denied>>

Build == Identify \/ Metadata \/ ThumbSmall \/ ThumbBig \/ Medium \/ Big \/ Hash

----------------------------------------------------------------------------
(* Operations on the built record *)

\* the three paths cleanup passes to os.remove, in its order, lines 212-214
CleanupOrder(slf) == <<slf.medium_path, slf.thumbnailfullpath, slf.thumbnailx2fullpath>>

\* os.remove(p) succeeds: the file is there and the system lets it go
Removable(f, p, refused) == Exists(f, p) /\ p \notin refused

RECURSIVE RemoveAll(_, _, _)
\* the removes inside the one try block: the first failure ends them all
RemoveAll(f, ps, refused) ==
    IF ps = <<>> THEN f
    ELSE IF Removable(f, Head(ps), refused)
    THEN RemoveAll([f EXCEPT ![Head(ps)] = Absent], Tail(ps), refused)
    ELSE f

\* cleanup(), lines 207-216: every exception is caught and logged
Cleanup ==
    /\ pc = "done"
    /\ cleaned < MaxCleanup
    /\ \E refused \in SUBSET {CleanupOrder(self)[i] : i \in 1..3} :
          /\ fs' = RemoveAll(fs, CleanupOrder(self), refused)
          /\ denied' = refused
    /\ cleaned' = cleaned + 1
    /\ raised' = "none"
    /\ UNCHANGED <<source, conf, now, pc, self, attrs, ntmp, calls, rotlog, adjusted>>

\* the upload collaborator puts the big image at destfullpath
Relocate ==
    /\ pc = "done"
    /\ ~Exists(fs, DestPath)
    /\ Opens(fs, self.big_path)
    /\ fs' = [fs EXCEPT ![DestPath] = fs[self.big_path]]
    /\ UNCHANGED <<source, conf, now, pc, self, attrs, ntmp, raised, calls, rotlog,
                   adjusted, cleaned, denied>>

\* rotatephoto(photo, rotation), lines 219-230.  Line 229 drops the result
\* of img2.rotate and line 230 saves img2, the rotated @2x thumbnail, at
\* the small thumbnail's path.
rotatephoto(f, slf, rotation) ==
    IF ~Opens(f, DestPath) THEN [fs |-> f, raised |-> "IOError"]
    ELSE LET f1 == [f EXCEPT ![DestPath] = Rotate(f[DestPath], rotation)]
         IN  IF ~Opens(f1, slf.thumbnailx2fullpath) THEN [fs |-> f1, raised |-> "IOError"]
             ELSE LET img2 == Rotate(f1[slf.thumbnailx2fullpath], rotation)
                      f2   == [f1 EXCEPT ![slf.thumbnailx2fullpath] = img2]
                  IN  IF ~Opens(f2, slf.thumbnailfullpath) THEN [fs |-> f2, raised |-> "IOError"]
                      ELSE [fs |-> [f2 EXCEPT ![slf.thumbnailfullpath] = img2],
                            raised |-> "none"]

\* RotationFor with orientation 3 handled as a half turn
RotationFor_HalfTurn(orientation) ==
    IF orientation \notin {0, 1}
    THEN (IF orientation = 6 THEN <<-90>> ELSE <<>>)
         \o (IF orientation = 8 THEN <<90>> ELSE <<>>)
         \o (IF orientation = 3 THEN <<180>> ELSE <<>>)
    ELSE <<>>

\* the rotatephoto calls adjustRotation makes for an orientation, lines 237-246
RotationFor(orientation) ==
    IF orientation \notin {0, 1}
    THEN (IF orientation = 6 THEN <<-90>> ELSE <<>>)
         \o (IF orientation = 8 THEN <<90>> ELSE <<>>)
    ELSE <<>>

\* adjustRotation(photo), lines 232-246, called by the caller on the record
AdjustRotation ==
    /\ pc = "done"
    /\ adjusted < MaxAdjust
    /\ LET rotations == RotationFor(self.orientation)
           r == IF rotations = <<>> THEN [fs |-> fs, raised |-> "none"]
                ELSE rotatephoto(fs, self, rotations[1])
       IN  /\ rotlog' = rotlog \o rotations
           /\ fs' = r.fs
           /\ raised' = r.raised
    /\ adjusted' = adjusted + 1
    /\ UNCHANGED <<source, conf, now, pc, self, attrs, ntmp, calls, cleaned, denied>>

----------------------------------------------------------------------------
(* Specifications *)

Next == Build \/ Cleanup \/ Relocate \/ AdjustRotation

\* the life of one photo record
Spec == Init /\ [][Next]_vars

\* the thumbnails of sources of many sizes
InitThumb == InitWith({s \in Decodable(ThumbDims) : ~s.exif}, {c \in Confs : ~c.has_big}, MainTimes)

NextThumb == Identify \/ Metadata \/ ThumbSmall \/ ThumbBig

SpecThumb == InitThumb /\ [][NextThumb]_vars

\* the id at many clock readings
InitId == InitWith({Undecodable}, {c \in Confs : ~c.has_big}, IdTimes)

NextId == Identify

SpecId == InitId /\ [][NextId]_vars

----------------------------------------------------------------------------
(* The claims *)

Last(q) == q[Len(q)]

\* the files rotatephoto is to turn: the primary derivative at destfullpath
\* and the two thumbnails
RotatedPaths(slf) == {DestPath, slf.thumbnailx2fullpath, slf.thumbnailfullpath}

DigitChars == {"0", "1", "2", "3", "4", "5", "6", "7", "8", "9"}

\* C1: no cleanup() call deletes the source file or the destination file:
\* whichever of the two exists before the call exists after it.
C1_CleanupKeepsSourceAndDest ==
    [][cleaned' # cleaned =>
          \A p \in {SrcPath, DestPath} : Exists(fs, p) => Exists(fs', p)]_vars

\* C2: a build of a source that cannot be decoded ends failed with the decode
\* error (IOError), having called no transform and created no file.
C2_DecodeFailureAbortsBuild ==
    (~source.decodable /\ pc \in {"done", "failed"}) =>
        /\ pc = "failed"
        /\ raised = "IOError"
        /\ calls = <<>>
        /\ ntmp = 0
        /\ \A p \in Paths \ {SrcPath} : ~Exists(fs, p)

\* C3: a finished build of a decodable source has run the orientation
\* correction exactly once, and for Orientation 6 the primary derivative and
\* both thumbnails are then turned by -90 degrees.
C3_BuildRunsCorrectionOnce ==
    (source.decodable /\ pc = "done") =>
        /\ Cardinality({i \in DOMAIN calls : calls[i] = "adjustRotation"}) = 1
        /\ self.orientation = 6 =>
              \A p \in RotatedPaths(self) : Opens(fs, p) /\ fs[p].rot = (-90) % 360

\* C4: a rotatephoto call that runs to its end leaves each of the three
\* files holding its own previous image turned by the given degrees.
C4_EachFileTurnsItsOwnImage ==
    [][(rotlog' # rotlog /\ raised' = "none") =>
          \A p \in RotatedPaths(self) : fs'[p] = Rotate(fs[p], Last(rotlog'))]_vars

\* C5: cleanup() never raises, and after it every temporary derivative that
\* was there and that the system let go is deleted, whatever happened to the
\* other two.
C5_CleanupBestEffort ==
    [][cleaned' # cleaned =>
          /\ raised' = "none"
          /\ \A i \in 1..3 :
                LET p == CleanupOrder(self)[i]
                IN  (Exists(fs, p) /\ p \notin denied') => ~Exists(fs', p)]_vars

\* C6: a resize call on a source with max(width, height) <= maxDimension
\* returns the source path and changes no file: none is created.
C6_ResizeNoOpCreatesNothing ==
    [][(pc \in {"medium", "big"} /\ calls' = Append(calls, "resize")
          /\ Max(fs[SrcPath].w, fs[SrcPath].h)
                <= (IF pc = "medium" THEN conf.medium_size ELSE conf.big_size)) =>
          /\ fs' = fs
          /\ (IF pc = "medium" THEN self'.medium_path ELSE self'.big_path) = SrcPath]_vars

\* C7: past the metadata step of a decodable source, a malformed DateTime tag
\* has not failed the build and has left the capture time at the moment of
\* extraction and the description empty; an absent DateTime tag has left the
\* description empty.
C7_BadDateTimeIsNotFatal ==
    (source.decodable /\ pc \notin {"start", "metadata"}) =>
        /\ source.datetime = "malformed" =>
              (pc # "failed" /\ self.datetime = "now" /\ self.description = "")
        /\ source.datetime = "absent" => self.description = ""

\* C8: an adjustRotation call makes exactly one rotatephoto call, by -90
\* degrees, for orientation 6, exactly one, by +90 degrees, for orientation
\* 8, and for every other orientation makes none and changes no file.
C8_OrientationPolicy ==
    [][adjusted' # adjusted =>
          /\ self.orientation = 6 => rotlog' = Append(rotlog, -90)
          /\ self.orientation = 8 => rotlog' = Append(rotlog, 90)
          /\ self.orientation \notin {6, 8} => (rotlog' = rotlog /\ fs' = fs)]_vars

\* C8's case: orientation 6, the rotation has run over all three files
C8_Witness ==
    /\ self.orientation = 6
    /\ adjusted = 1
    /\ rotlog = <<-90>>
    /\ raised = "none"
    /\ fs[DestPath].rot = 270

\* what C9 says of the thumbnail at path p made for box side t
CentredSquareThumb(p, t) ==
    LET shorter == Min(source.width, source.height)
        longer  == Max(source.width, source.height)
        offset  == (longer - shorter) \div 2
        img     == fs[p]
    IN  /\ Opens(fs, p)
        /\ img.box = IF source.width > source.height
                     THEN <<offset, 0, offset + shorter, shorter>>
                     ELSE <<0, offset, shorter, offset + shorter>>
        /\ img.w = img.h
        /\ img.w = Min(t, shorter)

\* C9: each thumbnail shows the centred square of side min(width, height),
\* offset floor((longer - shorter) / 2) along the longer axis and 0 along the
\* other, and is square with side min(t, min(width, height)).
C9_ThumbnailIsCentredSquare ==
    /\ "thumbnailfullpath" \in attrs =>
          CentredSquareThumb(self.thumbnailfullpath, SMALL_THUMB_SIZE)
    /\ "thumbnailx2fullpath" \in attrs =>
          CentredSquareThumb(self.thumbnailx2fullpath, BIG_THUMB_SIZE)

\* C9's case: both thumbnails of a landscape source whose odd surplus is
\* floored, one scaled down and one kept at the cropped size
C9_Witness ==
    /\ {"thumbnailfullpath", "thumbnailx2fullpath"} \subseteq attrs
    /\ source.width = BIG_THUMB_SIZE + 1
    /\ source.height = SMALL_THUMB_SIZE + 2
    /\ fs[self.thumbnailfullpath].w = SMALL_THUMB_SIZE
    /\ fs[self.thumbnailx2fullpath].w = SMALL_THUMB_SIZE + 2

\* C10: the id is 14 characters long and every character is a decimal digit.
C10_IdIsFourteenDigits ==
    "id" \in attrs =>
        /\ Len(self.id) = 14
        /\ \A i \in 1..Len(self.id) : self.id[i] \in DigitChars

\* C10's case: a reading of today's clock whose fraction is rounded to two
\* decimals, leaving twelve digits to pad
C10_Witness ==
    /\ "id" \in attrs
    /\ now.secs = 1414141414
    /\ now.micros = 123456
    /\ self.id = <<"1", "4", "1", "4", "1", "4", "1", "4", "1", "4", "1", "2", "0", "0">>

====
